---- MODULE Spec2Model ----
(***************************************************************************)
(* A state-machine model of iytdl/main.py (class iYTDL): construction,     *)
(* start()/stop(), scoped acquisition, extract_info_from_key and           *)
(* get_ytthumb.  Strings that are only compared are TLA+ strings; keys are *)
(* sequences of characters, because the code takes their length.           *)
(***************************************************************************)
EXTENDS Integers, Sequences, FiniteSets, TLC

VARIABLES
    args,        \* the constructor's arguments (session, cache_path, ffmpeg_location)
    usage,       \* how the caller uses the class: manual, scoped (async with), init()
    obj,         \* "unborn" | "alive" | "ctor_raised"
    ctorRaised,  \* the exception __init__ raised, or None
    ctorTrace,   \* the effects __init__ performed, in order
    http,        \* self.http: "absent" | "open" | "closed"
    httpOwner,   \* who created the session: "none" | "caller" | "instance"
    cache,       \* self.cache: [exists, conn], conn in "unopened" | "open" | "closed"
    store,       \* the persisted key -> url table behind self.cache
    ffprobe,     \* hasattr(self, "_ffprobe")
    lastStart,   \* what the most recent start() did
    lastStop,    \* what the most recent stop() did
    lastOp,      \* the most recent lifecycle operation
    scope,       \* the position of the async-with statement
    calls,       \* per caller: the extract_info_from_key call in flight
    thumb,       \* the get_ytthumb call in flight
    kc           \* the key cache's table rows and the history of its put and get

vars == <<args, usage, obj, ctorRaised, ctorTrace, http, httpOwner, cache, store,
          ffprobe, lastStart, lastStop, lastOp, scope, calls, thumb, kc>>

lifeVars == <<args, usage, obj, ctorRaised, ctorTrace, http, httpOwner, cache,
              ffprobe, lastStart, lastStop, lastOp, scope>>

\* The lifecycle's state other than the two shared resources.
lifeRest == <<args, usage, obj, ctorRaised, ctorTrace, httpOwner,
              ffprobe, lastStart, lastStop, lastOp, scope>>

----------------------------------------------------------------------------
(* Values *)

None == "None"

\* Python truthiness of an Optional[str]: None and "" are falsy.
Truthy(v) == v # None /\ v # ""

\* Bounds of the model.
MaxKeyLen == 12
MaxExitCode == 1

\* len(key) == 11 selects the video-identifier path.
VideoIdLen == 11

KeyChars == {"a", "b"}
KeyLens == {0} \cup ((VideoIdLen - 1) .. MaxKeyLen)
KeyOf(n, c) == [i \in 1..n |-> c]
Keys == {KeyOf(n, c) : n \in KeyLens, c \in KeyChars}

\* The tables the persisted store can hold when the instance is built: nothing,
\* a URL under some keys, a URL under every key.
UrlFor(k) == IF k = <<>> \/ k[1] = "b" THEN "https://example.com/y" ELSE "https://example.com/x"
StoredSets == {{}, {k \in Keys : k # <<>> /\ k[1] = "a"}, Keys}
Stores == {[k \in Keys |-> IF k \in S THEN UrlFor(k) ELSE None] : S \in StoredSets}

ExitCodes == 0 .. MaxExitCode
Callers == {"c1", "c2"}

Sessions == {None, "supplied"}
CachePaths == {"dir", "missing", "file"}
FfmpegLocations == {"ffmpeg", "custom_file", "custom_missing"}
Usages == {"manual", "scoped", "init"}

----------------------------------------------------------------------------
(* __init__ *)

\* Path.mkdir(exist_ok=True, parents=True): an existing directory is accepted,
\* a missing one is created, an existing plain file raises FileExistsError.
Mkdir(kind) ==
    IF kind = "file" THEN [raised |-> "FileExistsError", kind |-> "file"]
    ELSE [raised |-> None, kind |-> "dir"]

\* self.http = session or ClientSession()
SessionOrNew(session) ==
    IF session # None
    THEN [owner |-> "caller", trace |-> <<>>]
    ELSE [owner |-> "instance", trace |-> <<"ClientSession()">>]

\* A constructor that takes a custom location without looking at the file.
FfmpegCheckSkipped(loc) == [raised |-> None, trace |-> <<>>]

\* if ffmpeg_location != "ffmpeg": ... if not is_file(): raise FileNotFoundError
\* The default location is taken as it is, with no look at the file system.
FfmpegCheck(loc) ==
    IF loc = "ffmpeg" THEN [raised |-> None, trace |-> <<>>]
    ELSE IF loc # "custom_file"
    THEN [raised |-> "FileNotFoundError", trace |-> <<"ffmpeg_location.is_file">>]
    ELSE [raised |-> None, trace |-> <<"ffmpeg_location.is_file">>]

\* The constructor, run on arguments a: the exception it raises (or None), the
\* effects it performed in order, and the attributes set when it stopped.
CtorRun(a) ==
    LET s  == SessionOrNew(a.session)
        t1 == s.trace \o <<"mkdir">>
        m  == Mkdir(a.cache_path)
        f  == FfmpegCheck(a.ffmpeg_location)
    IN  IF m.raised # None
        THEN [raised |-> m.raised, trace |-> t1, owner |-> s.owner, cache |-> FALSE]
        ELSE IF m.kind = "file"
        THEN [raised |-> "TypeError", trace |-> t1 \o <<"is_file">>,
              owner |-> s.owner, cache |-> FALSE]
        ELSE [raised |-> f.raised,
              trace |-> t1 \o <<"is_file", "AioSQLiteDB()">> \o f.trace,
              owner |-> s.owner, cache |-> TRUE]

NoStart == [ran |-> FALSE, exit1 |-> -1, candidate |-> None, probed2 |-> FALSE,
            exit2 |-> -1, raised |-> None, cacheInit |-> FALSE, recorded |-> FALSE]
NoStop == [ran |-> FALSE, after |-> "none", raised |-> None, httpBefore |-> "absent",
           closedHttp |-> FALSE, closedCache |-> FALSE]
NoScope == [pc |-> "none", body |-> None, stopRan |-> FALSE, propagated |-> None]
NoResult == [kind |-> "None", via |-> None, key |-> <<>>, url |-> None]
IdleCall == [pc |-> "idle", key |-> <<>>, url |-> None, lookups |-> 0,
             byId |-> <<>>, byUrl |-> <<>>, returned |-> NoResult,
             result |-> NoResult, raised |-> FALSE]
NoLink == [host |-> None, yt_id |-> <<>>, quality |-> None]
IdleThumb == [pc |-> "idle", yt_id |-> <<>>, idx |-> 0, probes |-> <<>>, statuses |-> <<>>,
              link |-> NoLink, raised |-> FALSE]

\* The key cache before any put or get of this run: one row under every key
\* the persisted table holds.
NoPut == [done |-> FALSE, again |-> FALSE, url |-> None, key |-> <<>>]
NoGet == [done |-> FALSE, key |-> <<>>, url |-> None]
NoHistory(st) ==
    [rows |-> [k \in Keys |-> IF st[k] # None THEN 1 ELSE 0],
     first |-> st, issued |-> {}, lastPut |-> NoPut, lastGet |-> NoGet]

Init ==
    /\ args = [session |-> None, cache_path |-> "dir", ffmpeg_location |-> "ffmpeg"]
    /\ usage = "manual"
    /\ obj = "unborn"
    /\ ctorRaised = None
    /\ ctorTrace = <<>>
    /\ http = "absent"
    /\ httpOwner = "none"
    /\ cache = [exists |-> FALSE, conn |-> "unopened"]
    /\ store \in Stores
    /\ ffprobe = FALSE
    /\ lastStart = NoStart
    /\ lastStop = NoStop
    /\ lastOp = "none"
    /\ scope = NoScope
    /\ calls = [c \in Callers |-> IdleCall]
    /\ thumb = IdleThumb
    /\ kc = NoHistory(store)

\* iYTDL(...): the caller picks the arguments and the way it will use the object.
Construct(a, u) ==
    /\ obj = "unborn"
    /\ LET r == CtorRun(a) IN
        /\ args' = a
        /\ usage' = u
        /\ obj' = IF r.raised = None THEN "alive" ELSE "ctor_raised"
        /\ ctorRaised' = r.raised
        /\ ctorTrace' = r.trace
        /\ http' = "open"
        /\ httpOwner' = r.owner
        /\ cache' = [exists |-> r.cache, conn |-> "unopened"]
        /\ scope' = IF r.raised = None /\ u # "manual"
                    THEN [NoScope EXCEPT !.pc = "entering"] ELSE NoScope
    /\ lastOp' = "ctor"
    /\ UNCHANGED <<store, ffprobe, lastStart, lastStop, calls, thumb, kc>>

----------------------------------------------------------------------------
(* start() and _check_ffmpeg() *)

\* A probe that does not test the primary tool's exit status.
CheckFfmpegUntested(loc, e1, sibling, e2) ==
    LET candidate == IF loc # "ffmpeg"
                     THEN (IF sibling THEN "sibling" ELSE None)
                     ELSE "ffprobe"
    IN  IF candidate # None
        THEN [exit1 |-> e1, candidate |-> candidate, probed2 |-> TRUE, exit2 |-> e2,
              raised |-> None, recorded |-> (e2 = 0)]
        ELSE [exit1 |-> e1, candidate |-> candidate, probed2 |-> FALSE, exit2 |-> -1,
              raised |-> None, recorded |-> FALSE]

\* A probe that treats a failing secondary version query like a failing primary.
CheckFfmpegSecondaryFatal(loc, e1, sibling, e2) ==
    LET candidate == IF loc # "ffmpeg"
                     THEN (IF sibling THEN "sibling" ELSE None)
                     ELSE "ffprobe"
    IN  IF e1 # 0
        THEN [exit1 |-> e1, candidate |-> candidate, probed2 |-> FALSE, exit2 |-> -1,
              raised |-> "ValueError", recorded |-> FALSE]
        ELSE IF candidate # None
        THEN [exit1 |-> e1, candidate |-> candidate, probed2 |-> TRUE, exit2 |-> e2,
              raised |-> (IF e2 # 0 THEN "ValueError" ELSE None), recorded |-> (e2 = 0)]
        ELSE [exit1 |-> e1, candidate |-> candidate, probed2 |-> FALSE, exit2 |-> -1,
              raised |-> None, recorded |-> FALSE]

\* _check_ffmpeg on self._ffmpeg = loc, where the primary version query exits
\* with e1, the co-located ffprobe file exists iff sibling, and the secondary
\* version query (when it is run) exits with e2.
CheckFfmpeg(loc, e1, sibling, e2) ==
    LET candidate == IF loc # "ffmpeg"
                     THEN (IF sibling THEN "sibling" ELSE None)
                     ELSE "ffprobe"
    IN  IF e1 # 0
        THEN [exit1 |-> e1, candidate |-> candidate, probed2 |-> FALSE, exit2 |-> -1,
              raised |-> "ValueError", recorded |-> FALSE]
        ELSE IF candidate # None
        THEN [exit1 |-> e1, candidate |-> candidate, probed2 |-> TRUE, exit2 |-> e2,
              raised |-> None, recorded |-> (e2 = 0)]
        ELSE [exit1 |-> e1, candidate |-> candidate, probed2 |-> FALSE, exit2 |-> -1,
              raised |-> None, recorded |-> FALSE]

\* AioSQLiteDB._init(): opens the storage behind the cache.
CacheInit(conn) == "open"

\* start(): await self._check_ffmpeg(); await self.cache._init()
StartRun(loc, e1, sibling, e2) ==
    LET p == CheckFfmpeg(loc, e1, sibling, e2)
    IN  [ran |-> TRUE, exit1 |-> p.exit1, candidate |-> p.candidate,
         probed2 |-> p.probed2, exit2 |-> p.exit2, raised |-> p.raised,
         cacheInit |-> (p.raised = None), recorded |-> p.recorded]

StartEffect(e1, sibling, e2) ==
    LET r == StartRun(args.ffmpeg_location, e1, sibling, e2) IN
        /\ lastStart' = r
        /\ ffprobe' = (ffprobe \/ r.recorded)
        /\ cache' = IF r.cacheInit THEN [cache EXCEPT !.conn = CacheInit(cache.conn)]
                    ELSE cache
        /\ lastOp' = IF r.raised = None THEN "start_ok" ELSE "start_failed"

\* The inputs a start() reads: the primary exit status; whether the co-located
\* ffprobe file exists, looked at only for a custom location; the secondary
\* exit status, read only when the secondary query is run.
StartInputs ==
    {in \in [e1 : ExitCodes, sibling : BOOLEAN, e2 : ExitCodes] :
        /\ (args.ffmpeg_location = "ffmpeg" => ~in.sibling)
        /\ (~CheckFfmpeg(args.ffmpeg_location, in.e1, in.sibling, in.e2).probed2
                => in.e2 = 0)}

\* The object is in the caller's hands, outside any async-with statement.
Manual == obj = "alive" /\ scope.pc \in {"none", "returned"}

Start(e1, sibling, e2) ==
    /\ Manual
    /\ StartEffect(e1, sibling, e2)
    /\ UNCHANGED <<args, usage, obj, ctorRaised, ctorTrace, http, httpOwner, store,
                   lastStop, scope, calls, thumb, kc>>

----------------------------------------------------------------------------
(* stop() *)

\* AioSQLiteDB.close(): releases the storage handle; closing a handle that is
\* closed or was never opened does nothing more.
CacheClose(conn) == [conn |-> "closed", raised |-> None]

\* A stop() that refuses a session that is already closed.
StopRunStrict(h, conn) ==
    IF h = "closed"
    THEN [ran |-> TRUE, raised |-> "RuntimeError", httpBefore |-> h,
          closedHttp |-> FALSE, closedCache |-> FALSE, http |-> h, conn |-> conn]
    ELSE [ran |-> TRUE, raised |-> CacheClose(conn).raised, httpBefore |-> h,
          closedHttp |-> TRUE, closedCache |-> TRUE,
          http |-> "closed", conn |-> CacheClose(conn).conn]

\* stop(): if self.http and not self.http.closed: await self.http.close()
\*         await self.cache.close()
StopRun(h, conn) ==
    LET c == CacheClose(conn)
    IN  [ran |-> TRUE, raised |-> c.raised, httpBefore |-> h,
         closedHttp |-> (h # "closed"), closedCache |-> TRUE,
         http |-> "closed", conn |-> c.conn]

StopEffect ==
    LET r == StopRun(http, cache.conn) IN
        /\ lastStop' = [ran |-> r.ran, after |-> lastOp, raised |-> r.raised,
                        httpBefore |-> r.httpBefore, closedHttp |-> r.closedHttp,
                        closedCache |-> r.closedCache]
        /\ http' = r.http
        /\ cache' = [cache EXCEPT !.conn = r.conn]
        /\ lastOp' = "stop"

Stop ==
    /\ Manual
    /\ StopEffect
    /\ UNCHANGED <<args, usage, obj, ctorRaised, ctorTrace, httpOwner, store, ffprobe,
                   lastStart, scope, calls, thumb, kc>>

----------------------------------------------------------------------------
(* async with iYTDL(...) and iYTDL.init(...) *)

\* __aenter__: await self.start(); return self.  When start() raises, the body
\* is never entered and __aexit__ is not called.
AEnter(e1, sibling, e2) ==
    /\ obj = "alive" /\ usage = "scoped" /\ scope.pc = "entering"
    /\ StartEffect(e1, sibling, e2)
    /\ scope' = [scope EXCEPT !.pc = IF lastStart'.raised = None
                                     THEN "body" ELSE "enter_raised",
                              !.propagated = lastStart'.raised]
    /\ UNCHANGED <<args, usage, obj, ctorRaised, ctorTrace, http, httpOwner, store,
                   lastStop, calls, thumb, kc>>

\* init(): yt = cls(*args, **kwargs); await yt.start(); return yt
InitStart(e1, sibling, e2) ==
    /\ obj = "alive" /\ usage = "init" /\ scope.pc = "entering"
    /\ StartEffect(e1, sibling, e2)
    /\ scope' = [scope EXCEPT !.pc = IF lastStart'.raised = None
                                     THEN "returned" ELSE "init_raised",
                              !.propagated = lastStart'.raised]
    /\ UNCHANGED <<args, usage, obj, ctorRaised, ctorTrace, http, httpOwner, store,
                   lastStop, calls, thumb, kc>>

\* An __aexit__ that returns a true value, which swallows the body's exception.
AExitRunSwallows == [stops |-> TRUE, returns |-> "True"]

\* __aexit__(self, *_, **__) -> None: what it runs and what it returns.
AExitRun == [stops |-> TRUE, returns |-> None]

\* The body of the async-with statement ends, by returning or by raising, and
\* the statement calls __aexit__; a falsy return value lets the body's
\* exception go on to the caller.
AExit(outcome) ==
    /\ obj = "alive" /\ usage = "scoped" /\ scope.pc = "body"
    /\ IF AExitRun.stops
       THEN StopEffect
       ELSE UNCHANGED <<lastStop, http, cache, lastOp>>
    /\ scope' = [pc |-> "exited", body |-> outcome, stopRan |-> AExitRun.stops,
                 propagated |->
                    IF AExitRun.stops /\ lastStop'.raised # None THEN lastStop'.raised
                    ELSE IF outcome = "raise" /\ ~Truthy(AExitRun.returns)
                    THEN "BodyError" ELSE None]
    /\ UNCHANGED <<args, usage, obj, ctorRaised, ctorTrace, httpOwner, store, ffprobe,
                   lastStart, calls, thumb, kc>>

----------------------------------------------------------------------------
NextLifecycle ==
    \/ \E a \in [session : Sessions, cache_path : CachePaths,
                 ffmpeg_location : FfmpegLocations], u \in Usages : Construct(a, u)
    \/ \E in \in StartInputs : Start(in.e1, in.sibling, in.e2)
    \/ Stop
    \/ \E in \in StartInputs : AEnter(in.e1, in.sibling, in.e2)
    \/ \E in \in StartInputs : InitStart(in.e1, in.sibling, in.e2)
    \/ \E outcome \in {"return", "raise"} : AExit(outcome)

SpecLifecycle == Init /\ [][NextLifecycle]_vars

----------------------------------------------------------------------------
(* extract_info_from_key(key) *)

\* The object can be called: it was built and no start() of a scope failed.
Usable == obj = "alive" /\ scope.pc \in {"none", "returned", "body"}

\* A length test that is off by one.
IsVideoIdOffByOne(key) == Len(key) = VideoIdLen - 1

\* A length test written with <= in place of ==.
IsVideoIdAtMost(key) == Len(key) <= VideoIdLen

\* if len(key) == 11: the video-identifier path, otherwise the cache path.
IsVideoId(key) == Len(key) = VideoIdLen

\* AioSQLiteDB.get_url(key): a point lookup in the persisted table.
GetUrl(key) == store[key]

\* What Extractor.get_download_button(key) can do: return a result for the
\* identifier, return None when it does not exist, or raise.
ById(key, outcome) ==
    IF outcome = "found"
    THEN [kind |-> "SearchResult", via |-> "get_download_button", key |-> key, url |-> None]
    ELSE NoResult

\* What Extractor.generic_extractor(key, url) can do: return a result tagged
\* with the key, return None, or raise.
ByUrl(key, url, outcome) ==
    IF outcome = "found"
    THEN [kind |-> "SearchResult", via |-> "generic_extractor", key |-> key, url |-> url]
    ELSE NoResult

ExtractorOutcomes == {"found", "none", "raise"}

\* The first step of the call, up to its first await: the length test, then
\* either get_download_button(key) or cache.get_url(key) is called.
ExtractEnter(key) ==
    IF IsVideoId(key)
    THEN [IdleCall EXCEPT !.pc = "await_by_id", !.key = key, !.byId = <<key>>]
    ELSE [IdleCall EXCEPT !.pc = "await_get_url", !.key = key, !.lookups = 1]

\* The extractor's answer to an awaited call: it raised, or it returned value.
Answer(value, outcome) == [raised |-> (outcome = "raise"), value |-> value]

\* return await self.get_download_button(key), given the extractor's answer
ExtractById(call, ret) ==
    IF ret.raised
    THEN [call EXCEPT !.pc = "done", !.raised = TRUE]
    ELSE [call EXCEPT !.pc = "done", !.result = ret.value]

\* The lookup's result is handed to generic_extractor without the truth test.
ExtractGotUrlUntested(call, url) ==
    [call EXCEPT !.pc = "await_by_url", !.url = url,
                 !.byUrl = Append(call.byUrl, <<call.key, url>>)]

\* A cache hit is handed to get_download_button instead of generic_extractor.
ExtractGotUrlById(call, url) ==
    IF Truthy(url)
    THEN [call EXCEPT !.pc = "await_by_id", !.url = url,
                      !.byId = Append(call.byId, call.key)]
    ELSE [call EXCEPT !.pc = "done", !.url = url, !.result = NoResult]

\* if url := await self.cache.get_url(key): call generic_extractor(key, url);
\* otherwise the function falls off its end and returns None.
ExtractGotUrl(call, url) ==
    IF Truthy(url)
    THEN [call EXCEPT !.pc = "await_by_url", !.url = url,
                      !.byUrl = Append(call.byUrl, <<call.key, url>>)]
    ELSE [call EXCEPT !.pc = "done", !.url = url, !.result = NoResult]

\* return await self.generic_extractor(key, url), given the extractor's answer
ExtractByUrl(call, ret) ==
    IF ret.raised
    THEN [call EXCEPT !.pc = "done", !.raised = TRUE]
    ELSE [call EXCEPT !.pc = "done", !.result = ret.value]

\* The extractor entry points are handed the session by reference and leave
\* it as it is.
HttpAfterExtractor(h) == h

\* The lookup reads the storage through its handle and leaves it as it is.
ConnAfterLookup(conn) == conn

\* One answer of the lookup resumes every call that waits for a lookup.
ResumeAllWaiting(cs, c, url) ==
    [d \in DOMAIN cs |-> IF cs[d].pc = "await_get_url"
                         THEN ExtractGotUrl(cs[d], url) ELSE cs[d]]

\* await self.cache.get_url(key): the answer resumes the call that awaited it;
\* key and url are locals of that call's own frame.
ResumeLookup(cs, c, url) == [cs EXCEPT ![c] = ExtractGotUrl(cs[c], url)]

Call(c, key) ==
    /\ Usable
    /\ calls[c].pc \in {"idle", "done"}
    /\ calls' = [calls EXCEPT ![c] = ExtractEnter(key)]
    /\ UNCHANGED <<lifeVars, store, thumb, kc>>

ByIdReturns(c, outcome) ==
    /\ calls[c].pc = "await_by_id"
    /\ LET ret == Answer(ById(calls[c].byId[1], outcome), outcome) IN
        calls' = [calls EXCEPT ![c] = [ExtractById(calls[c], ret)
                                          EXCEPT !.returned = ret.value]]
    /\ http' = HttpAfterExtractor(http)
    /\ UNCHANGED <<lifeRest, cache, store, thumb, kc>>

GetUrlReturns(c) ==
    /\ calls[c].pc = "await_get_url"
    /\ calls' = ResumeLookup(calls, c, GetUrl(calls[c].key))
    /\ cache' = [cache EXCEPT !.conn = ConnAfterLookup(cache.conn)]
    /\ UNCHANGED <<lifeRest, http, store, thumb, kc>>

ByUrlReturns(c, outcome) ==
    /\ calls[c].pc = "await_by_url"
    /\ LET sent == calls[c].byUrl[Len(calls[c].byUrl)]
           ret == Answer(ByUrl(sent[1], sent[2], outcome), outcome) IN
        calls' = [calls EXCEPT ![c] = [ExtractByUrl(calls[c], ret)
                                          EXCEPT !.returned = ret.value]]
    /\ http' = HttpAfterExtractor(http)
    /\ UNCHANGED <<lifeRest, cache, store, thumb, kc>>

ExtractStep(c) ==
    \/ \E key \in Keys : Call(c, key)
    \/ \E outcome \in ExtractorOutcomes : ByIdReturns(c, outcome)
    \/ GetUrlReturns(c)
    \/ \E outcome \in ExtractorOutcomes : ByUrlReturns(c, outcome)

\* The object built for manual use, started and stopped by hand.
NextManual ==
    \/ \E a \in [session : Sessions, cache_path : CachePaths,
                 ffmpeg_location : FfmpegLocations] : Construct(a, "manual")
    \/ \E in \in StartInputs : Start(in.e1, in.sibling, in.e2)
    \/ Stop

\* One caller at a time resolves keys while the object is started and stopped.
NextResolve ==
    \/ NextManual
    \/ ExtractStep("c1")

SpecResolve == Init /\ [][NextResolve]_vars

----------------------------------------------------------------------------
(* get_ytthumb(yt_id) *)

\* for quality in ("maxresdefault", "hqdefault", "sddefault", "mqdefault", "default")
Qualities == <<"maxresdefault", "hqdefault", "sddefault", "mqdefault", "default">>

\* link = f"https://i.ytimg.com/vi/{yt_id}/{quality}.jpg"
Link(yt_id, quality) == [host |-> "i.ytimg.com", yt_id |-> yt_id, quality |-> quality]

\* self.default_thumb
DefaultThumb == [host |-> "default_thumb", yt_id |-> <<>>, quality |-> None]

\* What self.http.get(link) can do: answer with a status, or fail in transport
\* (the async-with statement then raises out of the loop).
Statuses == {200, 404}
ProbeOutcomes == [kind : {"response"}, status : Statuses]
                    \cup {[kind |-> "failure", status |-> 0]}

YtIds == {k \in Keys : Len(k) = VideoIdLen}

\* The call up to its first await: the first link is built and requested.
ThumbEnter(yt_id) ==
    [IdleThumb EXCEPT !.pc = "probing", !.yt_id = yt_id, !.idx = 1,
                      !.probes = <<Qualities[1]>>,
                      !.link = Link(yt_id, Qualities[1])]

\* The loop without its break: a 200 answer does not end it.
ThumbAnswerNoBreak(t, outcome) ==
    IF outcome.kind = "failure"
    THEN [t EXCEPT !.pc = "done", !.raised = TRUE, !.link = NoLink]
    ELSE LET seen == Append(t.statuses, outcome.status) IN
         IF t.idx < Len(Qualities)
         THEN [t EXCEPT !.idx = t.idx + 1, !.statuses = seen,
                        !.probes = Append(t.probes, Qualities[t.idx + 1]),
                        !.link = Link(t.yt_id, Qualities[t.idx + 1])]
         ELSE [t EXCEPT !.pc = "done", !.statuses = seen, !.link = DefaultThumb]

\* One answer of self.http.get(link): resp.status == 200 breaks out of the loop
\* and the link is returned; any other status goes on to the next quality, and
\* after the last one the for-else sets link = self.default_thumb; a transport
\* failure is an exception nothing in the function catches.
ThumbAnswer(t, outcome) ==
    IF outcome.kind = "failure"
    THEN [t EXCEPT !.pc = "done", !.raised = TRUE, !.link = NoLink]
    ELSE LET seen == Append(t.statuses, outcome.status) IN
         IF outcome.status = 200
         THEN [t EXCEPT !.pc = "done", !.statuses = seen]
         ELSE IF t.idx < Len(Qualities)
         THEN [t EXCEPT !.idx = t.idx + 1, !.statuses = seen,
                        !.probes = Append(t.probes, Qualities[t.idx + 1]),
                        !.link = Link(t.yt_id, Qualities[t.idx + 1])]
         ELSE [t EXCEPT !.pc = "done", !.statuses = seen, !.link = DefaultThumb]

\* A probe written as "async with self.http": leaving the block closes the
\* session.
HttpAfterProbeClosesSession(h) == "closed"

\* async with self.http.get(link) as resp: leaving the block releases the
\* response; the session that made the request is left as it is.
HttpAfterProbe(h) == h

ThumbCall(yt_id) ==
    /\ Usable
    /\ thumb.pc \in {"idle", "done"}
    /\ thumb' = ThumbEnter(yt_id)
    /\ UNCHANGED <<lifeVars, store, calls, kc>>

ProbeAnswers(outcome) ==
    /\ thumb.pc = "probing"
    /\ thumb' = ThumbAnswer(thumb, outcome)
    /\ http' = HttpAfterProbe(http)
    /\ UNCHANGED <<lifeRest, cache, store, calls, kc>>

ThumbStep ==
    \/ \E yt_id \in YtIds : ThumbCall(yt_id)
    \/ \E outcome \in ProbeOutcomes : ProbeAnswers(outcome)

NextThumb ==
    \/ NextManual
    \/ ThumbStep

SpecThumb == Init /\ [][NextThumb]_vars

----------------------------------------------------------------------------
(* KeyCache: put(url) and get(key) *)

\* The width of a derived key: on the order of 8 to 16 characters, never 11.
KeyWidth == 10

PutUrls == {"https://example.com/x", "https://example.com/y", "https://example.com/z"}

\* The fixed-length hash of a URL, encoded: deterministic, and not injective
\* (the x and z URLs hash to the same digest).
Digest(u) == IF u = "https://example.com/y" THEN "b" ELSE "a"

\* The key put derives from a URL: the digest at the fixed width.
DeriveKey(u) == KeyOf(KeyWidth, Digest(u))

\* A put that writes the pair whether or not the key is present.
CachePutOverwrites(st, rows, u) ==
    LET k == DeriveKey(u)
    IN  [key |-> k, store |-> [st EXCEPT ![k] = u],
         rows |-> [rows EXCEPT ![k] = 1]]

\* A put that inserts a row on every call.
CachePutAlwaysInserts(st, rows, u) ==
    LET k == DeriveKey(u)
    IN  [key |-> k, store |-> IF st[k] = None THEN [st EXCEPT ![k] = u] ELSE st,
         rows |-> [rows EXCEPT ![k] = rows[k] + 1]]

\* put(url): derives the key, persists the pair if the key is not already
\* present (the first URL under a key is the one retained), returns the key.
CachePut(st, rows, u) ==
    LET k == DeriveKey(u)
    IN  IF st[k] = None
        THEN [key |-> k, store |-> [st EXCEPT ![k] = u],
              rows |-> [rows EXCEPT ![k] = rows[k] + 1]]
        ELSE [key |-> k, store |-> st, rows |-> rows]

\* The cache storage can be used: start() opened it and stop() has not
\* closed it.
StorageOpen == Usable /\ cache.conn = "open"

Put(u) ==
    /\ StorageOpen
    /\ LET r == CachePut(store, kc.rows, u) IN
        /\ store' = r.store
        /\ kc' = [rows |-> r.rows,
                  first |-> IF kc.first[r.key] = None
                            THEN [kc.first EXCEPT ![r.key] = u] ELSE kc.first,
                  issued |-> kc.issued \cup {<<u, r.key>>},
                  lastPut |-> [done |-> TRUE, again |-> (<<u, r.key>> \in kc.issued),
                               url |-> u, key |-> r.key],
                  lastGet |-> NoGet]
    /\ UNCHANGED <<lifeVars, calls, thumb>>

Get(k) ==
    /\ StorageOpen
    /\ kc' = [kc EXCEPT !.lastGet = [done |-> TRUE, key |-> k, url |-> GetUrl(k)]]
    /\ UNCHANGED <<lifeVars, store, calls, thumb>>

\* The documented use of one object: built with arguments the constructor
\* accepts, started once, stopped.
AcceptedArgs == [session : Sessions, cache_path : {"dir", "missing"},
                 ffmpeg_location : {"ffmpeg"}]

NextSession ==
    \/ \E a \in AcceptedArgs : Construct(a, "manual")
    \/ \E in \in StartInputs : ~lastStart.ran /\ Start(in.e1, in.sibling, in.e2)
    \/ Stop

\* A first run: the backing store is created empty.
InitFresh == Init /\ store = [k \in Keys |-> None]

\* Puts and gets on the storage of one object.
NextCache ==
    \/ NextSession
    \/ \E u \in PutUrls : Put(u)
    \/ \E k \in Keys : Get(k)

SpecCache == InitFresh /\ [][NextCache]_vars

\* Keys are issued by put and resolved by extract_info_from_key.
NextRoute ==
    \/ NextSession
    \/ \E u \in PutUrls : Put(u)
    \/ ExtractStep("c1")

SpecRoute == InitFresh /\ [][NextRoute]_vars

\* Keys are resolved and thumbnails probed on one object between its start
\* and its stop.
NextShared ==
    \/ NextSession
    \/ ExtractStep("c1")
    \/ ThumbStep

SpecShared == Init /\ [][NextShared]_vars

\* Two callers resolve keys on one object, built and started once, with their
\* steps interleaved at their awaits.
NextConcurrent ==
    \/ \E a \in AcceptedArgs : Construct(a, "manual")
    \/ \E in \in StartInputs : ~lastStart.ran /\ Start(in.e1, in.sibling, in.e2)
    \/ \E c \in Callers : ExtractStep(c)

SpecConcurrent == Init /\ [][NextConcurrent]_vars

----------------------------------------------------------------------------
Next ==
    \/ NextLifecycle
    \/ \E c \in Callers : ExtractStep(c)
    \/ ThumbStep
    \/ \E u \in PutUrls : Put(u)
    \/ \E k \in Keys : Get(k)

Spec == Init /\ [][Next]_vars

----------------------------------------------------------------------------
(* Properties of extract_info_from_key, checked under SpecResolve *)

\* C1: a call whose key has length 11 makes no cache lookup at any point,
\* calls get_download_button once with that key, never generic_extractor, and
\* returns exactly what get_download_button returned, None included.
C1_VideoIdBypassesCache ==
    \A c \in Callers :
        (calls[c].pc # "idle" /\ Len(calls[c].key) = 11) =>
            /\ calls[c].lookups = 0
            /\ calls[c].byId = <<calls[c].key>>
            /\ calls[c].byUrl = <<>>
            /\ calls[c].pc \in {"await_by_id", "done"}
            /\ (calls[c].pc = "done" /\ ~calls[c].raised =>
                    calls[c].result = calls[c].returned)

\* C1 witness: a finished call on an 11-character key that the store also
\* holds, answered with a result by get_download_button.
C1_Witness ==
    \E c \in Callers :
        /\ calls[c].pc = "done" /\ Len(calls[c].key) = 11
        /\ store[calls[c].key] # None
        /\ calls[c].result.kind = "SearchResult"

\* C2: when the lookup of a key of length other than 11 comes back and the
\* cache holds no URL for it, the call ends there: it returns None, it has not
\* raised, no extractor entry point was called, and the step leaves the store,
\* the session and the cache handle as they were.
C2_MissReturnsNone ==
    [][\A c \in Callers :
        (calls[c].pc = "await_get_url" /\ calls'[c] # calls[c]
            /\ store[calls[c].key] = None) =>
            /\ Len(calls[c].key) # 11
            /\ calls'[c].pc = "done"
            /\ ~calls'[c].raised
            /\ calls'[c].result = NoResult
            /\ calls'[c].lookups = 1
            /\ calls'[c].byId = <<>> /\ calls'[c].byUrl = <<>>
            /\ UNCHANGED <<store, http, httpOwner, cache>>]_vars

\* C2 witness: a finished call on a 12-character key the store does not hold.
C2_Witness ==
    \E c \in Callers :
        /\ calls[c].pc = "done" /\ Len(calls[c].key) = 12
        /\ store[calls[c].key] = None
        /\ calls[c].lookups = 1 /\ calls[c].result = NoResult

\* C3: a call whose key has a length other than 11 and for which the cache
\* holds a URL u calls generic_extractor exactly once, with the key and u,
\* never get_download_button, and returns what generic_extractor returned.
C3_HitGoesToGenericExtractor ==
    \A c \in Callers :
        (calls[c].pc \in {"await_by_url", "done"} /\ Len(calls[c].key) # 11
            /\ store[calls[c].key] # None) =>
            /\ calls[c].lookups = 1
            /\ calls[c].byUrl = << <<calls[c].key, store[calls[c].key]>> >>
            /\ calls[c].byId = <<>>
            /\ (calls[c].pc = "done" /\ ~calls[c].raised =>
                    calls[c].result = calls[c].returned)

\* C3 witness: a finished call on a 10-character key whose stored URL reached
\* generic_extractor and came back in the result, tagged with the key.
C3_Witness ==
    \E c \in Callers :
        /\ calls[c].pc = "done" /\ Len(calls[c].key) = 10
        /\ store[calls[c].key] = "https://example.com/x"
        /\ calls[c].result = [kind |-> "SearchResult", via |-> "generic_extractor",
                              key |-> calls[c].key, url |-> "https://example.com/x"]

----------------------------------------------------------------------------
(* Properties of get_ytthumb, checked under SpecThumb *)

\* C4: the qualities are probed in the order maxresdefault, hqdefault,
\* sddefault, mqdefault, default; a probe that answers 200 is the last probe
\* of the call, and the call returns the link of that quality for the video
\* identifier it was given.
C4_HighestAvailableQualityWins ==
    LET order == <<"maxresdefault", "hqdefault", "sddefault", "mqdefault", "default">>
    IN  thumb.pc # "idle" =>
            /\ Len(thumb.probes) \in 1..5
            /\ thumb.probes = SubSeq(order, 1, Len(thumb.probes))
            /\ \A i \in 1..Len(thumb.statuses) :
                   thumb.statuses[i] = 200 =>
                       /\ i = Len(thumb.statuses)
                       /\ Len(thumb.probes) = i
                       /\ thumb.pc = "done"
                       /\ thumb.link = [host |-> "i.ytimg.com", yt_id |-> thumb.yt_id,
                                        quality |-> order[i]]
            /\ (thumb.pc = "done" /\ thumb.link.host = "i.ytimg.com" =>
                    thumb.statuses[Len(thumb.statuses)] = 200)

\* C4 witness: the probe succeeds only from sddefault downward, and the call
\* returned the sddefault link after three probes.
C4_Witness ==
    /\ thumb.pc = "done"
    /\ thumb.statuses = <<404, 404, 200>>
    /\ thumb.link.quality = "sddefault"
    /\ Len(thumb.probes) = 3

\* C5: a finished get_ytthumb call has not raised and has returned a URL, a
\* thumbnail link or the default thumbnail, whatever the probes did.
C5_NeverFailsTheCaller ==
    thumb.pc = "done" =>
        /\ ~thumb.raised
        /\ thumb.link.host \in {"i.ytimg.com", "default_thumb"}

----------------------------------------------------------------------------
(* Properties of the lifecycle, checked under SpecLifecycle *)

\* C6: every stop() completes without raising, whatever came before it (the
\* constructor, a failed start(), a successful start(), another stop()), and a
\* stop() that follows a stop() leaves the session, the cache handle and the
\* store exactly as they were.
C6_StopIdempotentAndTotal ==
    [][lastOp' = "stop" =>
        /\ lastStop'.ran
        /\ lastStop'.raised = None
        /\ (lastOp = "stop" => UNCHANGED <<http, cache, store>>)]_vars

\* C6 witness: a second stop() in a row, on an object whose start() had failed.
C6_Witness ==
    /\ lastOp = "stop"
    /\ lastStop.after = "stop"
    /\ lastStart.raised = "ValueError"
    /\ lastStop.raised = None

\* C7: after stop() a session supplied by the caller is still open, a session
\* the instance created is closed, and the cache storage is closed.
C7_StopSparesSuppliedSession ==
    lastOp = "stop" =>
        /\ http = (IF httpOwner = "caller" THEN "open" ELSE "closed")
        /\ cache.conn = "closed"

\* C8: in async with, the body is entered only after start() ran and
\* succeeded; once the body is left, by return or by exception, stop() has
\* run, and the body's exception, if any, reaches the caller.
C8_ScopeStartsAndStops ==
    usage = "scoped" =>
        /\ (scope.pc \in {"body", "exited"} =>
                lastStart.ran /\ lastStart.raised = None /\ lastStart.cacheInit)
        /\ (scope.pc = "exited" =>
                /\ scope.stopRan
                /\ lastOp = "stop" /\ lastStop.ran
                /\ http = "closed" /\ cache.conn = "closed"
                /\ (scope.body = "raise" => scope.propagated = "BodyError")
                /\ (scope.body = "return" => scope.propagated = None))

\* C8 witness: the body raised and the statement was left.
C8_Witness ==
    usage = "scoped" /\ scope.pc = "exited" /\ scope.body = "raise"

\* C9: a constructor given a cache_path that is an existing plain file raises
\* TypeError, before it creates a network session and before a cache object
\* exists.
C9_FileCachePathRaisesTypeErrorFirst ==
    (obj = "ctor_raised" /\ args.cache_path = "file") =>
        /\ ctorRaised = "TypeError"
        /\ \A i \in DOMAIN ctorTrace : ctorTrace[i] # "ClientSession()"
        /\ ~cache.exists

\* C10: a start() whose primary version query exits non-zero raises
\* ValueError to its caller, does not run the secondary version query, records
\* no secondary capability and does not initialize the cache storage: the
\* cache handle and the _ffprobe attribute are as they were before it.
C10_PrimaryFailureIsFatal ==
    [][(lastOp' \in {"start_ok", "start_failed"} /\ lastStart'.exit1 # 0) =>
        /\ lastOp' = "start_failed"
        /\ lastStart'.raised = "ValueError"
        /\ ~lastStart'.probed2
        /\ ~lastStart'.recorded
        /\ ~lastStart'.cacheInit
        /\ UNCHANGED <<cache, ffprobe, store>>
        /\ (scope.pc = "entering" =>
                scope'.pc \in {"enter_raised", "init_raised"}
                /\ scope'.propagated = "ValueError")]_vars

\* C10 witness: the first start() of an object failed on the primary tool and
\* its cache storage was never opened.
C10_Witness ==
    /\ lastOp = "start_failed"
    /\ lastStart.exit1 = 1
    /\ lastStart.raised = "ValueError"
    /\ cache.conn = "unopened"
    /\ ~ffprobe

\* C11: a start() whose primary version query exits 0 does not raise,
\* whatever the secondary tool does (no co-located file, a query that exits
\* non-zero, a query that exits 0); it initializes the cache storage; it
\* records the secondary capability exactly when the secondary query was run
\* and exited 0, so that on an instance with nothing recorded before, the
\* capability is present afterwards iff that query exited 0.
C11_SecondaryFailureIsNotFatal ==
    [][(lastOp' \in {"start_ok", "start_failed"} /\ lastStart'.exit1 = 0) =>
        /\ lastOp' = "start_ok"
        /\ lastStart'.raised = None
        /\ lastStart'.cacheInit /\ cache'.conn = "open"
        /\ (lastStart'.probed2 <=> lastStart'.candidate # None)
        /\ (lastStart'.recorded <=> (lastStart'.probed2 /\ lastStart'.exit2 = 0))
        /\ (ffprobe' <=> (ffprobe \/ lastStart'.recorded))
        /\ (~ffprobe => (ffprobe' <=> (lastStart'.probed2 /\ lastStart'.exit2 = 0)))
        /\ (scope.pc = "entering" => scope'.pc \in {"body", "returned"})]_vars

\* C11 witness: a start() succeeded although the secondary query exited 1,
\* and no capability is recorded.
C11_Witness ==
    /\ lastOp = "start_ok"
    /\ lastStart.probed2 /\ lastStart.exit2 = 1
    /\ ~ffprobe

\* C12: an object given a custom ffmpeg_location that is not an existing file
\* is never built: the constructor raises (FileNotFoundError, unless the cache
\* path already made it raise), no start() and so no version query ever runs
\* and the cache storage is never opened; for the default location the
\* constructor makes no file-existence check of the tool.
C12_MissingCustomToolFailsConstruction ==
    obj # "unborn" =>
        /\ (args.ffmpeg_location = "custom_missing" =>
                /\ obj = "ctor_raised"
                /\ (args.cache_path # "file" => ctorRaised = "FileNotFoundError")
                /\ ~lastStart.ran
                /\ cache.conn = "unopened")
        /\ (args.ffmpeg_location = "ffmpeg" =>
                \A i \in DOMAIN ctorTrace : ctorTrace[i] # "ffmpeg_location.is_file")

\* C12 witness: the constructor raised FileNotFoundError.
C12_Witness ==
    /\ obj = "ctor_raised"
    /\ args.ffmpeg_location = "custom_missing"
    /\ ctorRaised = "FileNotFoundError"

\* C18: once a bring-up has failed (the constructor raised, or start() raised
\* inside __aenter__ or inside init()), a session the instance created itself
\* is closed.
C18_NoSessionLeftOpenAfterFailedBringUp ==
    ((obj = "ctor_raised" \/ scope.pc \in {"enter_raised", "init_raised"})
        /\ httpOwner = "instance") => http = "closed"

----------------------------------------------------------------------------
(* Properties of the key cache, checked under SpecCache and SpecRoute *)

\* The URLs whose put returned key k so far.
IssuedFor(k) == {p[1] : p \in {q \in kc.issued : q[2] = k}}

\* C13 as stated: a get of a key returns the URL of every put that returned
\* that key, colliding URLs included, and nothing for a key no put returned.
C13_GetReturnsEveryOriginalUrl ==
    kc.lastGet.done =>
        /\ \A u \in IssuedFor(kc.lastGet.key) : kc.lastGet.url = u
        /\ (IssuedFor(kc.lastGet.key) = {} => kc.lastGet.url = None)

\* C13 amended: a get of a key returns the URL of the first put that returned
\* that key, which is the original URL of every put that returned it when no
\* two distinct URLs derived the key, and nothing for a key no put returned.
C13_GetReturnsFirstUrl ==
    kc.lastGet.done =>
        /\ (IssuedFor(kc.lastGet.key) # {} =>
                /\ kc.lastGet.url = kc.first[kc.lastGet.key]
                /\ kc.lastGet.url \in IssuedFor(kc.lastGet.key))
        /\ (Cardinality(IssuedFor(kc.lastGet.key)) = 1 =>
                \A u \in IssuedFor(kc.lastGet.key) : kc.lastGet.url = u)
        /\ (IssuedFor(kc.lastGet.key) = {} => kc.lastGet.url = None)

\* C13 witness: two URLs derived the same key, x first, and a get of that key
\* returned x.
C13_Witness ==
    /\ kc.lastGet.done
    /\ IssuedFor(kc.lastGet.key) = {"https://example.com/x", "https://example.com/z"}
    /\ kc.first[kc.lastGet.key] = "https://example.com/x"
    /\ kc.lastGet.url = "https://example.com/x"

\* C14: no key returned by put has length 11, no key the store holds has
\* length 11, and a call of extract_info_from_key on a key put returned makes
\* the cache lookup and never calls get_download_button.
C14_PutKeysAreNeverVideoIds ==
    /\ \A p \in kc.issued : Len(p[2]) # 11
    /\ \A k \in Keys : store[k] # None => Len(k) # 11
    /\ \A c \in Callers :
           (calls[c].pc # "idle" /\ IssuedFor(calls[c].key) # {}) =>
               /\ calls[c].lookups = 1
               /\ calls[c].byId = <<>>
               /\ calls[c].pc \in {"await_get_url", "await_by_url", "done"}

\* C14 witness: a key put returned went through the lookup to
\* generic_extractor and a result came back.
C14_Witness ==
    \E c \in Callers :
        /\ calls[c].pc = "done"
        /\ IssuedFor(calls[c].key) # {}
        /\ calls[c].result.via = "generic_extractor"

\* C15: every put of a URL returns the same key, and after it the store holds
\* exactly one row under that key, however many times the URL was put; the
\* row holds that URL when no other URL derived the key.
C15_PutIsIdempotent ==
    /\ \A p \in kc.issued, q \in kc.issued : p[1] = q[1] => p[2] = q[2]
    /\ \A p \in kc.issued :
           /\ kc.rows[p[2]] = 1
           /\ store[p[2]] \in IssuedFor(p[2])
           /\ (IssuedFor(p[2]) = {p[1]} => store[p[2]] = p[1])
    /\ \A k \in Keys : IssuedFor(k) = {} => kc.rows[k] = 0

\* C15 witness: a URL was put again and its key still has one row, holding it.
C15_Witness ==
    /\ kc.lastPut.done /\ kc.lastPut.again
    /\ kc.rows[kc.lastPut.key] = 1
    /\ store[kc.lastPut.key] = kc.lastPut.url

----------------------------------------------------------------------------
(* The shared resources, checked under SpecShared *)

\* C16: a step of extract_info_from_key or of get_ytthumb, whatever its
\* outcome, leaves the network session and the cache storage handle in the
\* open/closed state they were in; a sequence of such steps therefore ends with
\* both as they were before it, and every change of either is a step of
\* __init__, start or stop.
C16_CallsLeaveSharedResources ==
    [][(calls' # calls \/ thumb' # thumb) => (http' = http /\ cache' = cache)]_vars

\* C16 witness: a resolution and a thumbnail probe have both ended by raising
\* on a started object, whose session and storage are still open.
C16_Witness ==
    /\ calls["c1"].pc = "done" /\ calls["c1"].raised
    /\ thumb.pc = "done" /\ thumb.raised
    /\ lastStart.ran /\ ~lastStop.ran
    /\ http = "open" /\ cache.conn = "open"

----------------------------------------------------------------------------
(* Concurrent callers of extract_info_from_key, checked under SpecConcurrent *)

\* What one call on its own shows at each of its positions, for its key and
\* the store: the lookups and extractor calls it made, and what it returned.
RunsAsAlone(call) ==
    LET k == call.key IN
    IF call.pc = "idle" THEN call = IdleCall
    ELSE IF Len(k) = VideoIdLen
    THEN /\ call.pc \in {"await_by_id", "done"}
         /\ call.lookups = 0 /\ call.byId = <<k>> /\ call.byUrl = <<>>
         /\ (call.pc = "done" /\ ~call.raised =>
                /\ call.result = call.returned
                /\ call.result \in {ById(k, "found"), NoResult})
    ELSE IF call.pc = "await_get_url"
    THEN call.lookups = 1 /\ call.byId = <<>> /\ call.byUrl = <<>>
    ELSE IF store[k] = None
    THEN /\ call.pc = "done" /\ ~call.raised /\ call.result = NoResult
         /\ call.lookups = 1 /\ call.byId = <<>> /\ call.byUrl = <<>>
    ELSE /\ call.pc \in {"await_by_url", "done"}
         /\ call.lookups = 1 /\ call.byId = <<>>
         /\ call.byUrl = << <<k, store[k]>> >>
         /\ (call.pc = "done" /\ ~call.raised =>
                /\ call.result = call.returned
                /\ call.result \in {ByUrl(k, store[k], "found"), NoResult})

\* C17: with two callers interleaved at their awaits, on different keys or on
\* the same key, every call makes the lookup and the extractor call it would
\* make alone (one of each per caller at most) and returns what it would
\* return alone, and a step of one caller leaves the other caller's call
\* untouched.
C17_InterleavedCallsRunAsAlone ==
    /\ [](\A c \in Callers : RunsAsAlone(calls[c]))
    /\ [][\A c \in Callers : calls'[c] # calls[c] =>
             \A d \in Callers \ {c} : calls'[d] = calls[d]]_vars

\* C17 witness: both callers are inside a call on the same stored key at the
\* same time, each having made its own lookup and its own extractor call.
C17_Witness ==
    /\ calls["c1"].pc = "await_by_url" /\ calls["c2"].pc = "await_by_url"
    /\ calls["c1"].key = calls["c2"].key
    /\ calls["c1"].lookups = 1 /\ calls["c2"].lookups = 1
    /\ calls["c1"].byUrl = << <<calls["c1"].key, store[calls["c1"].key]>> >>
    /\ calls["c2"].byUrl = calls["c1"].byUrl

====
